---- MODULE Spec2Model ----
(***************************************************************************)
(* SkiFree: the skier state machine (Entities/Skier.ts) and the frame      *)
(* sequence animator (Core/Animation.ts).                                  *)
(*                                                                         *)
(* Positions are exact rationals.  DIAGONAL_SPEED_REDUCER is the rational  *)
(* ReducerNum / ReducerDen, and every coordinate is stored as an integer   *)
(* count of 1/ReducerNum pixels, so that  speed / DIAGONAL_SPEED_REDUCER   *)
(* is the integer  speed * ReducerDen  and a whole pixel count n is        *)
(* n * ReducerNum  (the operator Px).                                      *)
(* Times are milliseconds.                                                 *)
(***************************************************************************)
EXTENDS Integers, Sequences, FiniteSets, TLC

(***************************************************************************)
(* Bounds of the model.                                                    *)
(***************************************************************************)
\* Two courses bound the driver.  On the track the skier runs straight down
\* (|x| <= TrackX pixels, 0 <= y <= TrackY pixels) and the clock runs to
\* TrackTicks * 100 ms, long enough for a whole jump.  On the slope the skier
\* may also turn and creep sideways (|x| <= SlopeX, 0 <= y <= SlopeY) while
\* the clock runs to SlopeTicks * 100 ms.
TrackX == 0
TrackY == 50
TrackTicks == 20
SlopeX == 10
SlopeY == 20
SlopeTicks == 8
\* the yard, where the skier's methods are called directly: |x| <= YardX,
\* 0 <= y <= YardY, and the clock runs to YardTicks * 100 ms
YardX == 10
YardY == 10
YardTicks == 4
\* the run, where the driver keeps calling update: |x| <= RunX,
\* 0 <= y <= RunY, the clock runs to RunTicks * 100 ms, and getObstacles()
\* returns at most RunObstacles obstacles
RunX == 0
RunY == 50
RunTicks == 20
RunObstacles == 1
\* obstacles returned by one getObstacles() call on the other courses
MaxObstacles == 2
\* a stand-alone animation: images in its sequence, calls made on it, and the
\* times of the calls, which run to MaxAnimationTick * 100 ms after construction
MaxImages == 3
MaxAnimationCalls == 3
MaxAnimationTick == 9

(***************************************************************************)
(* Constants of the program.                                               *)
(***************************************************************************)
STARTING_SPEED == 10

ANIMATION_FRAME_SPEED_MS == 300

\* DIAGONAL_SPEED_REDUCER = ReducerNum / ReducerDen = 1.4142
ReducerNum == 14142
ReducerDen == 10000

IMAGE_NAMES ==
    [ SKIER_CRASH     |-> "skierCrash",
      SKIER_LEFT      |-> "skierLeft",
      SKIER_LEFTDOWN  |-> "skierLeftDown",
      SKIER_DOWN      |-> "skierDown",
      SKIER_RIGHTDOWN |-> "skierRightDown",
      SKIER_RIGHT     |-> "skierRight",
      SKIER_JUMP1     |-> "skierJump1",
      SKIER_JUMP2     |-> "skierJump2",
      SKIER_JUMP3     |-> "skierJump3",
      SKIER_JUMP4     |-> "skierJump4",
      SKIER_JUMP5     |-> "skierJump5",
      TREE            |-> "tree",
      ROCK1           |-> "rock1",
      ROCK2           |-> "rock2",
      JUMP_RAMP       |-> "jumpRamp" ]

KEYS ==
    [ LEFT     |-> "ArrowLeft",
      RIGHT    |-> "ArrowRight",
      UP       |-> "ArrowUp",
      DOWN     |-> "ArrowDown",
      SPACEBAR |-> "Space" ]

STATES ==
    [ STATE_SKIING  |-> "skiing",
      STATE_JUMPING |-> "jumping",
      STATE_CRASHED |-> "crashed",
      STATE_DEAD    |-> "dead" ]

DIRECTION_LEFT == 0
DIRECTION_LEFT_DOWN == 1
DIRECTION_DOWN == 2
DIRECTION_RIGHT_DOWN == 3
DIRECTION_RIGHT == 4

\* DIRECTION_IMAGES[d]; a direction outside the table reads as undefined
DirectionImage(d) ==
    CASE d = DIRECTION_LEFT       -> IMAGE_NAMES.SKIER_LEFT
      [] d = DIRECTION_LEFT_DOWN  -> IMAGE_NAMES.SKIER_LEFTDOWN
      [] d = DIRECTION_DOWN       -> IMAGE_NAMES.SKIER_DOWN
      [] d = DIRECTION_RIGHT_DOWN -> IMAGE_NAMES.SKIER_RIGHTDOWN
      [] d = DIRECTION_RIGHT      -> IMAGE_NAMES.SKIER_RIGHT
      [] OTHER                    -> "undefined"

IMAGES_JUMPING ==
    << IMAGE_NAMES.SKIER_JUMP1, IMAGE_NAMES.SKIER_JUMP2, IMAGE_NAMES.SKIER_JUMP3,
       IMAGE_NAMES.SKIER_JUMP4, IMAGE_NAMES.SKIER_JUMP5 >>

\* n whole pixels, in position units
Px(n) == n * ReducerNum

(***************************************************************************)
(* Core/Animation.ts.  An animation is the record of its fields; a call    *)
(* returns the new record and the calls it made to its two sinks, in       *)
(* order: getCurrentImage(image) and callback().                           *)
(***************************************************************************)
NewAnimation(images, looping, hasCallback, createdAt) ==
    [ images                |-> images,
      looping               |-> looping,
      hasCallback           |-> hasCallback,
      currentAnimationFrame |-> 0,
      animationFrameTime    |-> createdAt ]

GetCurrentImageCall(image) == [ sink |-> "getCurrentImage", image |-> image ]
CallbackCall == [ sink |-> "callback", image |-> "" ]

\* a variant of finishAnimation that leaves the frame index where it is
finishAnimation_KeepsIndex(a) ==
    [ anim  |-> a,
      calls |-> IF a.hasCallback THEN << CallbackCall >> ELSE << >> ]

finishAnimation(a) ==
    [ anim  |-> [a EXCEPT !.currentAnimationFrame = 0],
      calls |-> IF a.hasCallback THEN << CallbackCall >> ELSE << >> ]

\* a variant of nextAnimationFrame that also delivers the first image when a
\* non-looping sequence finishes
nextAnimationFrame_DeliversOnFinish(a, animationCalledTime) ==
    LET a1 == [a EXCEPT !.animationFrameTime = animationCalledTime,
                        !.currentAnimationFrame = @ + 1]
        a2 == [a1 EXCEPT !.currentAnimationFrame = 0]
    IN  IF a1.currentAnimationFrame >= Len(a1.images)
        THEN IF ~a1.looping
             THEN [ anim  |-> finishAnimation(a1).anim,
                    calls |-> finishAnimation(a1).calls
                                \o << GetCurrentImageCall(a2.images[1]) >> ]
             ELSE [ anim  |-> a2,
                    calls |-> << GetCurrentImageCall(a2.images[a2.currentAnimationFrame + 1]) >> ]
        ELSE [ anim  |-> a1,
               calls |-> << GetCurrentImageCall(a1.images[a1.currentAnimationFrame + 1]) >> ]

\* a variant of nextAnimationFrame that finishes a looping sequence as well
nextAnimationFrame_LoopingFinishes(a, animationCalledTime) ==
    LET a1 == [a EXCEPT !.animationFrameTime = animationCalledTime,
                        !.currentAnimationFrame = @ + 1]
    IN  IF a1.currentAnimationFrame >= Len(a1.images)
        THEN finishAnimation(a1)
        ELSE [ anim  |-> a1,
               calls |-> << GetCurrentImageCall(a1.images[a1.currentAnimationFrame + 1]) >> ]

nextAnimationFrame(a, animationCalledTime) ==
    LET a1 == [a EXCEPT !.animationFrameTime = animationCalledTime,
                        !.currentAnimationFrame = @ + 1]
        a2 == [a1 EXCEPT !.currentAnimationFrame = 0]
    IN  IF a1.currentAnimationFrame >= Len(a1.images)
        THEN IF ~a1.looping
             THEN finishAnimation(a1)
             ELSE [ anim  |-> a2,
                    calls |-> << GetCurrentImageCall(a2.images[a2.currentAnimationFrame + 1]) >> ]
        ELSE [ anim  |-> a1,
               calls |-> << GetCurrentImageCall(a1.images[a1.currentAnimationFrame + 1]) >> ]

\* a variant of animate that advances as soon as the interval is reached
animate_AtInterval(a, animationCalledTime) ==
    IF animationCalledTime - a.animationFrameTime >= ANIMATION_FRAME_SPEED_MS
    THEN nextAnimationFrame(a, animationCalledTime)
    ELSE [ anim |-> a, calls |-> << >> ]

animate(a, animationCalledTime) ==
    IF animationCalledTime - a.animationFrameTime > ANIMATION_FRAME_SPEED_MS
    THEN nextAnimationFrame(a, animationCalledTime)
    ELSE [ anim |-> a, calls |-> << >> ]

reset(a) == [a EXCEPT !.currentAnimationFrame = 0]

(***************************************************************************)
(* Collaborators of the skier that the repository keeps outside the        *)
(* examined core: rectangles (Core/Utils), the sprite resolver             *)
(* (Core/ImageManager) and the obstacles (Entities/Obstacles).             *)
(***************************************************************************)
Null == [ null |-> TRUE ]

Rect(left, top, right, bottom) ==
    [ left |-> left, top |-> top, right |-> right, bottom |-> bottom ]

intersectTwoRects(rect1, rect2) ==
    ~ ( \/ rect2.left > rect1.right
        \/ rect2.right < rect1.left
        \/ rect2.top > rect1.bottom
        \/ rect2.bottom < rect1.top )

Image(width, height) == [ width |-> width, height |-> height ]

SkierImageNames ==
    { IMAGE_NAMES.SKIER_CRASH, IMAGE_NAMES.SKIER_LEFT, IMAGE_NAMES.SKIER_LEFTDOWN,
      IMAGE_NAMES.SKIER_DOWN, IMAGE_NAMES.SKIER_RIGHTDOWN, IMAGE_NAMES.SKIER_RIGHT,
      IMAGE_NAMES.SKIER_JUMP1, IMAGE_NAMES.SKIER_JUMP2, IMAGE_NAMES.SKIER_JUMP3,
      IMAGE_NAMES.SKIER_JUMP4, IMAGE_NAMES.SKIER_JUMP5, "undefined" }

\* the sprites an ImageManager may hold: all of them loaded (20 x 40 pixels
\* each), or none yet
LoadedImages == [ n \in SkierImageNames |->
                    IF n = "undefined" THEN Null ELSE Image(Px(20), Px(40)) ]
NoImages == [ n \in SkierImageNames |-> Null ]
ImageManagers == { LoadedImages, NoImages }

getImage(imageManager, imageName) == imageManager[imageName]

Obstacle(imageName, bounds) == [ imageName |-> imageName, bounds |-> bounds ]

ObstacleNames ==
    { IMAGE_NAMES.JUMP_RAMP, IMAGE_NAMES.ROCK1, IMAGE_NAMES.ROCK2, IMAGE_NAMES.TREE }

(***************************************************************************)
(* Entities/Skier.ts.  A skier is the record of its fields; each method is *)
(* an operator from the skier before the call to the skier after it.       *)
(***************************************************************************)
NewSkier(x, y, createdAt) ==
    [ imageName     |-> IMAGE_NAMES.SKIER_DOWN,
      state         |-> STATES.STATE_SKIING,
      direction     |-> DIRECTION_DOWN,
      speed         |-> STARTING_SPEED,
      position      |-> [ x |-> x, y |-> y ],
      jumpAnimation |-> NewAnimation(IMAGES_JUMPING, FALSE, TRUE, createdAt) ]

isCrashed(s) == s.state = STATES.STATE_CRASHED
\* a variant of isMoving that counts the dead skier as moving
isMoving_WhileDead(s) ==
    s.state \in { STATES.STATE_SKIING, STATES.STATE_JUMPING, STATES.STATE_DEAD }

\* a variant of isMoving that counts the crashed skier as moving
isMoving_WhileCrashed(s) ==
    s.state \in { STATES.STATE_SKIING, STATES.STATE_JUMPING, STATES.STATE_CRASHED }

isMoving(s) == s.state \in { STATES.STATE_SKIING, STATES.STATE_JUMPING }
isJumping(s) == s.state = STATES.STATE_JUMPING
isDead(s) == s.state = STATES.STATE_DEAD

setImageName(s, imageName) == [s EXCEPT !.imageName = imageName]

setDirectionalImage(s) == [s EXCEPT !.imageName = DirectionImage(s.direction)]

setDirection(s, direction) == setDirectionalImage([s EXCEPT !.direction = direction])

moveSkierLeft(s) == [s EXCEPT !.position.x = @ - Px(STARTING_SPEED)]

moveSkierLeftDown(s) ==
    [s EXCEPT !.position.x = @ - s.speed * ReducerDen,
              !.position.y = @ + s.speed * ReducerDen]

moveSkierDown(s) == [s EXCEPT !.position.y = @ + Px(s.speed)]

moveSkierRightDown(s) ==
    [s EXCEPT !.position.x = @ + s.speed * ReducerDen,
              !.position.y = @ + s.speed * ReducerDen]

moveSkierRight(s) == [s EXCEPT !.position.x = @ + Px(STARTING_SPEED)]

moveSkierUp(s) == [s EXCEPT !.position.y = @ - Px(STARTING_SPEED)]

move(s) ==
    CASE s.direction = DIRECTION_LEFT_DOWN  -> moveSkierLeftDown(s)
      [] s.direction = DIRECTION_DOWN       -> moveSkierDown(s)
      [] s.direction = DIRECTION_RIGHT_DOWN -> moveSkierRightDown(s)
      [] OTHER                              -> s

\* a variant of canNotJump that forgets the direction
canNotJump_IgnoresDirection(s) == isJumping(s) \/ isCrashed(s)

canNotJump(s) ==
    \/ isJumping(s)
    \/ s.direction \in { DIRECTION_LEFT, DIRECTION_RIGHT }
    \/ isCrashed(s)

jump(s) ==
    IF canNotJump(s) THEN s ELSE [s EXCEPT !.state = STATES.STATE_JUMPING]

\* a variant of land that keeps the sprite of the last jump frame
land_KeepsJumpImage(s) == [s EXCEPT !.state = STATES.STATE_SKIING]

land(s) == setDirectionalImage([s EXCEPT !.state = STATES.STATE_SKIING])

\* a variant of recoverFromCrash that leaves the crash sprite in place
recoverFromCrash_StaleImage(s, newDirection) ==
    [s EXCEPT !.state = STATES.STATE_SKIING, !.speed = STARTING_SPEED,
              !.direction = newDirection]

recoverFromCrash(s, newDirection) ==
    setDirection([s EXCEPT !.state = STATES.STATE_SKIING, !.speed = STARTING_SPEED],
                 newDirection)

\* a variant of turnLeft that steps the direction and leaves the sprite stale
turnLeft_StaleImage(s) ==
    LET s1 == IF isCrashed(s) THEN recoverFromCrash(s, DIRECTION_LEFT) ELSE s
    IN  IF s1.direction = DIRECTION_LEFT
        THEN moveSkierLeft(s1)
        ELSE [s1 EXCEPT !.direction = @ - 1]

\* a variant of turnLeft in which recovering from a crash is all the call does
turnLeft_RecoverOnly(s) ==
    IF isCrashed(s)
    THEN recoverFromCrash(s, DIRECTION_LEFT)
    ELSE IF s.direction = DIRECTION_LEFT
         THEN moveSkierLeft(s)
         ELSE setDirection(s, s.direction - 1)

turnLeft(s) ==
    LET s1 == IF isCrashed(s) THEN recoverFromCrash(s, DIRECTION_LEFT) ELSE s
    IN  IF s1.direction = DIRECTION_LEFT
        THEN moveSkierLeft(s1)
        ELSE setDirection(s1, s1.direction - 1)

\* a variant of turnRight that steps the direction even when fully right
turnRight_NoCeiling(s) ==
    LET s1 == IF isCrashed(s) THEN recoverFromCrash(s, DIRECTION_RIGHT) ELSE s
    IN  setDirection(s1, s1.direction + 1)

turnRight(s) ==
    LET s1 == IF isCrashed(s) THEN recoverFromCrash(s, DIRECTION_RIGHT) ELSE s
    IN  IF s1.direction = DIRECTION_RIGHT
        THEN moveSkierRight(s1)
        ELSE setDirection(s1, s1.direction + 1)

turnUp(s) ==
    IF isCrashed(s)
    THEN s
    ELSE IF s.direction = DIRECTION_LEFT \/ s.direction = DIRECTION_RIGHT
         THEN moveSkierUp(s)
         ELSE s

\* a variant of turnDown that also turns a crashed skier
turnDown_WhileCrashed(s) == setDirection(s, DIRECTION_DOWN)

turnDown(s) == IF isCrashed(s) THEN s ELSE setDirection(s, DIRECTION_DOWN)

\* a variant of handleInput that ignores input only when dead
handleInput_JumpingNotIgnored(s, inputKey) ==
    IF isDead(s)
    THEN [ skier |-> s, handled |-> FALSE ]
    ELSE CASE inputKey = KEYS.LEFT     -> [ skier |-> turnLeft(s),  handled |-> TRUE ]
           [] inputKey = KEYS.RIGHT    -> [ skier |-> turnRight(s), handled |-> TRUE ]
           [] inputKey = KEYS.UP       -> [ skier |-> turnUp(s),    handled |-> TRUE ]
           [] inputKey = KEYS.DOWN     -> [ skier |-> turnDown(s),  handled |-> TRUE ]
           [] inputKey = KEYS.SPACEBAR -> [ skier |-> jump(s),      handled |-> TRUE ]
           [] OTHER                    -> [ skier |-> s,            handled |-> FALSE ]

\* a variant of handleInput that reports an unrecognized key as handled
handleInput_AnyKeyHandled(s, inputKey) ==
    IF isDead(s) \/ isJumping(s)
    THEN [ skier |-> s, handled |-> FALSE ]
    ELSE CASE inputKey = KEYS.LEFT     -> [ skier |-> turnLeft(s),  handled |-> TRUE ]
           [] inputKey = KEYS.RIGHT    -> [ skier |-> turnRight(s), handled |-> TRUE ]
           [] inputKey = KEYS.UP       -> [ skier |-> turnUp(s),    handled |-> TRUE ]
           [] inputKey = KEYS.DOWN     -> [ skier |-> turnDown(s),  handled |-> TRUE ]
           [] inputKey = KEYS.SPACEBAR -> [ skier |-> jump(s),      handled |-> TRUE ]
           [] OTHER                    -> [ skier |-> s,            handled |-> TRUE ]

\* handleInput: the skier after the call and the value returned
handleInput(s, inputKey) ==
    IF isDead(s) \/ isJumping(s)
    THEN [ skier |-> s, handled |-> FALSE ]
    ELSE CASE inputKey = KEYS.LEFT     -> [ skier |-> turnLeft(s),  handled |-> TRUE ]
           [] inputKey = KEYS.RIGHT    -> [ skier |-> turnRight(s), handled |-> TRUE ]
           [] inputKey = KEYS.UP       -> [ skier |-> turnUp(s),    handled |-> TRUE ]
           [] inputKey = KEYS.DOWN     -> [ skier |-> turnDown(s),  handled |-> TRUE ]
           [] inputKey = KEYS.SPACEBAR -> [ skier |-> jump(s),      handled |-> TRUE ]
           [] OTHER                    -> [ skier |-> s,            handled |-> FALSE ]

getBounds(s, imageManager) ==
    LET image == getImage(imageManager, s.imageName)
    IN  IF image = Null
        THEN Null
        ELSE Rect(s.position.x - image.width \div 2,
                  s.position.y - image.height \div 2,
                  s.position.x + image.width \div 2,
                  s.position.y - image.height \div 4)

\* a variant of crash that leaves the jump animation where it was
crash_KeepsFrame(s) ==
    [s EXCEPT !.state = STATES.STATE_CRASHED,
              !.speed = 0,
              !.imageName = IMAGE_NAMES.SKIER_CRASH]

crash(s) ==
    LET s1 == IF isJumping(s)
              THEN [s EXCEPT !.jumpAnimation = reset(s.jumpAnimation)]
              ELSE s
    IN  [s1 EXCEPT !.state = STATES.STATE_CRASHED,
                   !.speed = 0,
                   !.imageName = IMAGE_NAMES.SKIER_CRASH]

\* a variant of intersectionAction in which a rock crashes a jumping skier too
intersectionAction_RockAlwaysCrashes(s, obstacle) ==
    CASE obstacle.imageName = IMAGE_NAMES.JUMP_RAMP -> jump(s)
      [] OTHER -> crash(s)

\* a variant of intersectionAction in which a jumping skier clears every obstacle
intersectionAction_JumpClearsAll(s, obstacle) ==
    CASE obstacle.imageName = IMAGE_NAMES.JUMP_RAMP -> jump(s)
      [] OTHER -> IF ~isJumping(s) THEN crash(s) ELSE s

intersectionAction(s, obstacle) ==
    CASE obstacle.imageName = IMAGE_NAMES.JUMP_RAMP -> jump(s)
      [] obstacle.imageName \in { IMAGE_NAMES.ROCK1, IMAGE_NAMES.ROCK2 } ->
             IF ~isJumping(s) THEN crash(s) ELSE s
      [] OTHER -> crash(s)

\* a variant of the search that returns the last intersecting obstacle
RECURSIVE FindIntersected_Last(_, _, _)
FindIntersected_Last(obstacles, skierBounds, i) ==
    IF i > Len(obstacles)
    THEN Null
    ELSE LET later == FindIntersected_Last(obstacles, skierBounds, i + 1)
         IN  IF later # Null
             THEN later
             ELSE IF /\ obstacles[i].bounds # Null
                     /\ intersectTwoRects(skierBounds, obstacles[i].bounds)
                  THEN obstacles[i]
                  ELSE Null

\* Array.prototype.find over getObstacles(): the first obstacle that has
\* bounds intersecting the skier's, or Null
RECURSIVE FindIntersected(_, _, _)
FindIntersected(obstacles, skierBounds, i) ==
    IF i > Len(obstacles)
    THEN Null
    ELSE IF /\ obstacles[i].bounds # Null
            /\ intersectTwoRects(skierBounds, obstacles[i].bounds)
         THEN obstacles[i]
         ELSE FindIntersected(obstacles, skierBounds, i + 1)

\* the obstacle checkIntersection acts on, or Null
intersectedObstacle(s, obstacles, imageManager) ==
    LET skierBounds == getBounds(s, imageManager)
    IN  IF skierBounds = Null
        THEN Null
        ELSE FindIntersected(obstacles, skierBounds, 1)

checkIntersection(s, obstacles, imageManager) ==
    LET found == intersectedObstacle(s, obstacles, imageManager)
    IN  IF found # Null THEN intersectionAction(s, found) ELSE s

\* one call a jump animation makes to the sink it was constructed with
JumpAnimationSink(s, call) ==
    IF call.sink = "callback" THEN land(s) ELSE setImageName(s, call.image)

RECURSIVE JumpAnimationSinks(_, _)
JumpAnimationSinks(s, calls) ==
    IF calls = << >>
    THEN s
    ELSE JumpAnimationSinks(JumpAnimationSink(s, Head(calls)), Tail(calls))

\* a variant of the animation step of update that does nothing
animateJump_Skipped(s, gameTime) == s

\* this.jumpAnimation.animate(gameTime), with the sinks bound to the skier
animateJump(s, gameTime) ==
    LET r == animate(s.jumpAnimation, gameTime)
    IN  JumpAnimationSinks([s EXCEPT !.jumpAnimation = r.anim], r.calls)

\* update, up to and including checkIntersection
updateCollide(s, obstacles, imageManager) ==
    IF isMoving(s) THEN checkIntersection(move(s), obstacles, imageManager) ELSE s

update(s, gameTime, obstacles, imageManager) ==
    IF isMoving(s)
    THEN LET s2 == updateCollide(s, obstacles, imageManager)
         IN  IF isJumping(s2) THEN animateJump(s2, gameTime) ELSE s2
    ELSE s

\* a variant of die that leaves the speed as it was
die_KeepsSpeed(s) == [s EXCEPT !.state = STATES.STATE_DEAD]

die(s) == [s EXCEPT !.state = STATES.STATE_DEAD, !.speed = 0]

\* what the provider returned to one update, as far as the skier can feel it:
\* the names, in the provider's order, of the first obstacle whose bounds
\* exist and intersect the bounds of the skier where update looks for a
\* collision, and of the next such obstacle after it
Touched(s, obstacles, imageManager) ==
    LET skierBounds == getBounds(s, imageManager)
        Touches(o) == /\ skierBounds # Null
                      /\ o.bounds # Null
                      /\ intersectTwoRects(skierBounds, o.bounds)
        touching == SelectSeq(obstacles, Touches)
    IN  IF Len(touching) <= 1
        THEN [ i \in 1..Len(touching) |-> touching[i].imageName ]
        ELSE << touching[1].imageName, touching[2].imageName >>

(***************************************************************************)
(* The game loop.  The driver owns the clock (now), constructs one skier   *)
(* and then calls handleInput, update and die in any order.  last records  *)
(* the most recent call: its arguments, the skier before it (pre), the     *)
(* skier after update's collision check and before its animation step      *)
(* (collided), the obstacle the collision check acted on (found) and the   *)
(* value handleInput returned (handled) and the calls the jump animation   *)
(* made to its sinks during the call (sinks).  course is the bound the     *)
(* driver keeps to; it never changes.                                      *)
(***************************************************************************)
VARIABLES skier, imageManager, now, last, course

(***************************************************************************)
(* A stand-alone Animation and its owner: animation is the object, sunk    *)
(* the calls it has made to getCurrentImage and callback so far, in order, *)
(* and called the calls its owner has made on it, the constructor first.   *)
(***************************************************************************)
VARIABLES animation, sunk, called

skierVars == << skier, imageManager, now, last, course >>
animationVars == << animation, sunk, called >>
vars == << skier, imageManager, now, last, course, animation, sunk, called >>

Keys == { KEYS.LEFT, KEYS.RIGHT, KEYS.UP, KEYS.DOWN, KEYS.SPACEBAR, "KeyA" }

\* on the track the clock advances by more than the frame interval at every
\* update; on the slope also by exactly the frame interval
Track ==
    [ maxX |-> TrackX, maxY |-> TrackY, maxTick |-> TrackTicks,
      steps |-> { ANIMATION_FRAME_SPEED_MS + 100 },
      maxObstacles |-> MaxObstacles, obstacleNames |-> ObstacleNames ]
Slope ==
    [ maxX |-> SlopeX, maxY |-> SlopeY, maxTick |-> SlopeTicks,
      steps |-> { ANIMATION_FRAME_SPEED_MS, ANIMATION_FRAME_SPEED_MS + 100 },
      maxObstacles |-> MaxObstacles, obstacleNames |-> ObstacleNames ]
Courses == { Track, Slope }

InWorld(position) ==
    /\ position.x >= - Px(course.maxX)
    /\ position.x <= Px(course.maxX)
    /\ position.y >= 0
    /\ position.y <= Px(course.maxY)

\* bounds an obstacle near the skier may have: a box around the skier that
\* its bounds meet wherever this tick's move takes it, and a box just ahead
\* that they meet only once the skier has moved down
BoundsAround(position) ==
    Rect(position.x - Px(30), position.y - Px(60), position.x + Px(30), position.y + Px(30))
BoundsAhead(position) ==
    Rect(position.x - Px(10), position.y - Px(5), position.x + Px(10), position.y + Px(5))

\* the response reads the name of an intersecting obstacle only; a course
\* holds obstacles of the kinds in its obstacleNames
ObstaclesNear(position) ==
    { o \in { Obstacle(IMAGE_NAMES.JUMP_RAMP, BoundsAround(position)),
              Obstacle(IMAGE_NAMES.ROCK1, BoundsAhead(position)),
              Obstacle(IMAGE_NAMES.ROCK2, BoundsAround(position)),
              Obstacle(IMAGE_NAMES.TREE, BoundsAround(position)),
              Obstacle(IMAGE_NAMES.TREE, Null) } :
        o.imageName \in course.obstacleNames }

\* the lists getObstacles() may return
ObstacleLists(position) ==
    UNION { [ 1..n -> ObstaclesNear(position) ] : n \in 0..course.maxObstacles }

Call(op, key, obstacles, found, pre, collided, sinks, handled) ==
    [ op |-> op, key |-> key, obstacles |-> obstacles, found |-> found,
      pre |-> pre, collided |-> collided, sinks |-> sinks, handled |-> handled ]

Init ==
    /\ now = 0
    /\ skier = NewSkier(0, 0, now)
    /\ imageManager \in ImageManagers
    /\ course \in Courses
    /\ last = Call("new", "", << >>, Null, skier, skier, << >>, FALSE)
    /\ animation = skier.jumpAnimation
    /\ sunk = << >>
    /\ called = << >>

HandleInput ==
    \E inputKey \in Keys :
        LET r == handleInput(skier, inputKey)
        IN  /\ InWorld(r.skier.position)
            /\ skier' = r.skier
            /\ last' = Call("handleInput", inputKey, << >>, Null, skier, skier, << >>, r.handled)
            /\ UNCHANGED << imageManager, now, course, animationVars >>

Update ==
    \E step \in course.steps :
        \E obstacles \in ObstacleLists(skier.position) :
            LET gameTime == now + step
                after == update(skier, gameTime, obstacles, imageManager)
                collided == updateCollide(skier, obstacles, imageManager)
            IN  /\ gameTime <= course.maxTick * 100
                /\ InWorld(after.position)
                /\ now' = gameTime
                /\ skier' = after
                /\ last' = Call("update", "",
                                Touched(IF isMoving(skier) THEN move(skier) ELSE skier,
                                        obstacles, imageManager),
                                IF isMoving(skier)
                                THEN intersectedObstacle(move(skier), obstacles, imageManager)
                                ELSE Null,
                                skier, collided,
                                IF isJumping(collided)
                                THEN animate(collided.jumpAnimation, gameTime).calls
                                ELSE << >>,
                                FALSE)
                /\ UNCHANGED << imageManager, course, animationVars >>

Die ==
    /\ skier' = die(skier)
    /\ last' = Call("die", "", << >>, Null, skier, skier, << >>, FALSE)
    /\ UNCHANGED << imageManager, now, course, animationVars >>

Next == HandleInput \/ Update \/ Die

Spec == Init /\ [][Next]_vars

(***************************************************************************)
(* The owner of a stand-alone Animation constructs it at some time over a  *)
(* sequence of distinct images and then calls animate, nextAnimationFrame  *)
(* and reset on it, reading a clock that never runs backwards.             *)
(***************************************************************************)
AnimationImages ==
    << IMAGE_NAMES.SKIER_DOWN, IMAGE_NAMES.SKIER_LEFT, IMAGE_NAMES.SKIER_RIGHT,
       IMAGE_NAMES.SKIER_CRASH >>

ImageSequences == { SubSeq(AnimationImages, 1, n) : n \in 1..MaxImages }

ConstructionTimes == { 0, 100 }

AnimationCall(op, time) == [ op |-> op, time |-> time ]

\* the times the owner may pass next
AnimationTimes ==
    { t \in { called[1].time + 100 * k : k \in 0..MaxAnimationTick } :
        t >= called[Len(called)].time }

InitAnimation ==
    /\ now = 0
    /\ skier = NewSkier(0, 0, now)
    /\ imageManager = LoadedImages
    /\ course = Track
    /\ last = Call("new", "", << >>, Null, skier, skier, << >>, FALSE)
    /\ \E images \in ImageSequences, looping \in BOOLEAN, hasCallback \in BOOLEAN,
          createdAt \in ConstructionTimes :
            /\ animation = NewAnimation(images, looping, hasCallback, createdAt)
            /\ called = << AnimationCall("new", createdAt) >>
    /\ sunk = << >>

AnimationAnimate ==
    \E t \in AnimationTimes :
        LET r == animate(animation, t)
        IN  /\ Len(called) <= MaxAnimationCalls
            /\ animation' = r.anim
            /\ sunk' = sunk \o r.calls
            /\ called' = Append(called, AnimationCall("animate", t))
            /\ UNCHANGED skierVars

AnimationNextAnimationFrame ==
    \E t \in AnimationTimes :
        LET r == nextAnimationFrame(animation, t)
        IN  /\ Len(called) <= MaxAnimationCalls
            /\ animation' = r.anim
            /\ sunk' = sunk \o r.calls
            /\ called' = Append(called, AnimationCall("nextAnimationFrame", t))
            /\ UNCHANGED skierVars

AnimationReset ==
    /\ Len(called) <= MaxAnimationCalls
    /\ animation' = reset(animation)
    /\ called' = Append(called, AnimationCall("reset", called[Len(called)].time))
    /\ UNCHANGED << sunk, skierVars >>

NextAnimation == AnimationAnimate \/ AnimationNextAnimationFrame \/ AnimationReset

AnimationSpec == InitAnimation /\ [][NextAnimation]_vars

(***************************************************************************)
(* The game loop with a driver that keeps its frames coming: on the run    *)
(* every update is more than one frame interval after the one before, and  *)
(* update is called again and again for as long as the course allows.      *)
(***************************************************************************)
\* the run: a straight descent just long enough for a whole jump, with ramps
\* and trees on it
Run ==
    [ maxX |-> RunX, maxY |-> RunY, maxTick |-> RunTicks,
      steps |-> { ANIMATION_FRAME_SPEED_MS + 100 },
      maxObstacles |-> RunObstacles,
      obstacleNames |-> { IMAGE_NAMES.JUMP_RAMP, IMAGE_NAMES.TREE } ]

InitRun ==
    /\ now = 0
    /\ skier = NewSkier(0, 0, now)
    /\ imageManager \in ImageManagers
    /\ course = Run
    /\ last = Call("new", "", << >>, Null, skier, skier, << >>, FALSE)
    /\ animation = skier.jumpAnimation
    /\ sunk = << >>
    /\ called = << >>

FairSpec == InitRun /\ [][Next]_vars /\ WF_vars(Update)

\* the skier after k more moves of update
RECURSIVE Moved(_, _)
Moved(s, k) == IF k = 0 THEN s ELSE Moved(move(s), k - 1)

\* the frame advances a jumping skier still needs in order to land
FramesLeft(s) == Len(IMAGES_JUMPING) - s.jumpAnimation.currentAnimationFrame

\* the course is long enough for the skier to finish its jump
RoomToLand ==
    /\ \A step \in course.steps :
           now + FramesLeft(skier) * step <= course.maxTick * 100
    /\ \A k \in 1..FramesLeft(skier) : InWorld(Moved(skier, k).position)

(***************************************************************************)
(* The skier's transition methods called from outside.  jump, land, crash  *)
(* and recoverFromCrash are public: besides the game loop's three calls,   *)
(* an owner of the skier may call them directly, in any state.             *)
(***************************************************************************)
Directions == DIRECTION_LEFT..DIRECTION_RIGHT

Jump ==
    /\ skier' = jump(skier)
    /\ last' = Call("jump", "", << >>, Null, skier, skier, << >>, FALSE)
    /\ UNCHANGED << imageManager, now, course, animationVars >>

Land ==
    /\ skier' = land(skier)
    /\ last' = Call("land", "", << >>, Null, skier, skier, << >>, FALSE)
    /\ UNCHANGED << imageManager, now, course, animationVars >>

Crash ==
    /\ skier' = crash(skier)
    /\ last' = Call("crash", "", << >>, Null, skier, skier, << >>, FALSE)
    /\ UNCHANGED << imageManager, now, course, animationVars >>

RecoverFromCrash ==
    \E newDirection \in Directions :
        /\ skier' = recoverFromCrash(skier, newDirection)
        /\ last' = Call("recoverFromCrash", "", << >>, Null, skier, skier, << >>, FALSE)
        /\ UNCHANGED << imageManager, now, course, animationVars >>

NextMethods ==
    HandleInput \/ Update \/ Die \/ Jump \/ Land \/ Crash \/ RecoverFromCrash

\* the methods are exercised on a small course: a skier that may turn and
\* creep, and a clock that allows one update
Yard ==
    [ maxX |-> YardX, maxY |-> YardY, maxTick |-> YardTicks,
      steps |-> { ANIMATION_FRAME_SPEED_MS + 100 },
      maxObstacles |-> MaxObstacles, obstacleNames |-> ObstacleNames ]

InitMethods ==
    /\ now = 0
    /\ skier = NewSkier(0, 0, now)
    /\ imageManager \in ImageManagers
    /\ course = Yard
    /\ last = Call("new", "", << >>, Null, skier, skier, << >>, FALSE)
    /\ animation = skier.jumpAnimation
    /\ sunk = << >>
    /\ called = << >>

MethodSpec == InitMethods /\ [][NextMethods]_vars

(***************************************************************************)
(* C1.  An Animation over the two images [a, b], not looping, constructed  *)
(* at time t and then driven by animate(t+300), animate(t+600) and         *)
(* animate(t+900), has called getCurrentImage(a), then getCurrentImage(b), *)
(* then its callback, and nothing else.                                    *)
(***************************************************************************)
C1_Scenario ==
    /\ Len(animation.images) = 2
    /\ ~animation.looping
    /\ animation.hasCallback
    /\ Len(called) = 4
    /\ \A i \in 1..3 :
         called[i + 1] = AnimationCall("animate",
                                       called[1].time + i * ANIMATION_FRAME_SPEED_MS)

C1_TwoFramesThenCallback ==
    C1_Scenario =>
        sunk = << GetCurrentImageCall(animation.images[1]),
                  GetCurrentImageCall(animation.images[2]),
                  CallbackCall >>

(***************************************************************************)
(* Claims about the skier, over the calls the game loop makes.             *)
(***************************************************************************)
RecognizedKeys == { KEYS.LEFT, KEYS.RIGHT, KEYS.UP, KEYS.DOWN, KEYS.SPACEBAR }

Rocks == { IMAGE_NAMES.ROCK1, IMAGE_NAMES.ROCK2 }

\* the call just made was handleInput on a skier in the given state
InputIn(state) == last.op = "handleInput" /\ last.pre.state = state

\* the call just made was update and its collision check acted on an obstacle
\* whose name is in the given set
UpdateFound(names) ==
    /\ last.op = "update"
    /\ last.found # Null
    /\ last.found.imageName \in names

(***************************************************************************)
(* C2.  While the skier is Jumping, handleInput returns false for every    *)
(* key and leaves direction, imageName, state, speed and position (and the *)
(* jump animation) as they were.                                           *)
(***************************************************************************)
C2_JumpingIgnoresInput ==
    InputIn(STATES.STATE_JUMPING) =>
        /\ last.handled = FALSE
        /\ skier.direction = last.pre.direction
        /\ skier.imageName = last.pre.imageName
        /\ skier.state = STATES.STATE_JUMPING
        /\ skier.speed = last.pre.speed
        /\ skier.position = last.pre.position
        /\ skier = last.pre

C2_Witness ==
    /\ InputIn(STATES.STATE_JUMPING)
    /\ last.key = KEYS.SPACEBAR
    /\ last.pre.jumpAnimation.currentAnimationFrame > 0
    /\ skier.state = STATES.STATE_JUMPING

(***************************************************************************)
(* C3.  In state Skiing, handleInput(Left) with direction d > Left sets    *)
(* the direction to d-1 and the sprite to DIRECTION_IMAGES[d-1], and       *)
(* handleInput(Right) with d < Right sets them to d+1 and                  *)
(* DIRECTION_IMAGES[d+1]; state, speed and position stay as they were.     *)
(***************************************************************************)
C3_DirectionStepping ==
    InputIn(STATES.STATE_SKIING) =>
        /\ (last.key = KEYS.LEFT /\ last.pre.direction > DIRECTION_LEFT) =>
              /\ skier.direction = last.pre.direction - 1
              /\ skier.imageName = DirectionImage(last.pre.direction - 1)
              /\ skier.state = STATES.STATE_SKIING
              /\ skier.speed = last.pre.speed
              /\ skier.position = last.pre.position
        /\ (last.key = KEYS.RIGHT /\ last.pre.direction < DIRECTION_RIGHT) =>
              /\ skier.direction = last.pre.direction + 1
              /\ skier.imageName = DirectionImage(last.pre.direction + 1)
              /\ skier.state = STATES.STATE_SKIING
              /\ skier.speed = last.pre.speed
              /\ skier.position = last.pre.position

\* the second Left from the initial Down: LeftDown to Left
C3_Witness ==
    /\ InputIn(STATES.STATE_SKIING)
    /\ last.key = KEYS.LEFT
    /\ last.pre.direction = DIRECTION_LEFT_DOWN
    /\ skier.direction = DIRECTION_LEFT
    /\ skier.imageName = IMAGE_NAMES.SKIER_LEFT
    /\ skier.position = [ x |-> 0, y |-> 0 ]

(***************************************************************************)
(* C4.  Dead is terminal: a call of handleInput or update on a dead skier  *)
(* leaves it Dead with speed 0 and direction, imageName and position as    *)
(* they were, handleInput returns false, and die leaves it Dead too.       *)
(***************************************************************************)
C4_DeadStaysDead ==
    last.pre.state = STATES.STATE_DEAD =>
        /\ skier.state = STATES.STATE_DEAD
        /\ skier.speed = 0
        /\ skier.direction = last.pre.direction
        /\ skier.imageName = last.pre.imageName
        /\ skier.position = last.pre.position
        /\ last.op = "handleInput" => last.handled = FALSE

C4_Witness ==
    /\ last.op = "update"
    /\ last.pre.state = STATES.STATE_DEAD
    /\ last.pre.direction = DIRECTION_DOWN
    /\ last.pre.position.y > 0
    /\ skier.state = STATES.STATE_DEAD

(***************************************************************************)
(* C5.  When update's collision check acts on a rock, the skier crashes    *)
(* exactly when it is not Jumping.  A jumping skier comes out of the       *)
(* collision check still Jumping, with its speed and its jump animation    *)
(* untouched, and is not Crashed when update returns.                      *)
(***************************************************************************)
C5_RockSafety ==
    UpdateFound(Rocks) =>
        IF last.pre.state = STATES.STATE_JUMPING
        THEN /\ last.collided.state = STATES.STATE_JUMPING
             /\ last.collided.speed = last.pre.speed
             /\ last.collided.imageName = last.pre.imageName
             /\ last.collided.jumpAnimation = last.pre.jumpAnimation
             /\ skier.state # STATES.STATE_CRASHED
             /\ skier.speed = last.pre.speed
        ELSE /\ last.collided.state = STATES.STATE_CRASHED
             /\ skier.state = STATES.STATE_CRASHED
             /\ skier.speed = 0

C5_Witness ==
    /\ UpdateFound(Rocks)
    /\ last.pre.state = STATES.STATE_JUMPING
    /\ last.pre.jumpAnimation.currentAnimationFrame > 0
    /\ skier.state = STATES.STATE_JUMPING

(***************************************************************************)
(* C6.  When update's collision check acts on an obstacle that is neither  *)
(* a jump ramp nor a rock, the skier is Crashed when update returns, with  *)
(* speed 0 and the crash sprite, whether it was Skiing or Jumping.         *)
(***************************************************************************)
C6_CrashResponse ==
    ( /\ last.op = "update"
      /\ last.found # Null
      /\ last.found.imageName \notin Rocks \cup { IMAGE_NAMES.JUMP_RAMP } ) =>
        /\ last.pre.state \in { STATES.STATE_SKIING, STATES.STATE_JUMPING }
        /\ skier.state = STATES.STATE_CRASHED
        /\ skier.speed = 0
        /\ skier.imageName = IMAGE_NAMES.SKIER_CRASH

C6_Witness ==
    /\ UpdateFound({ IMAGE_NAMES.TREE })
    /\ last.pre.state = STATES.STATE_JUMPING
    /\ skier.state = STATES.STATE_CRASHED

(***************************************************************************)
(* C7.  When the jump animation completes during update (its callback,     *)
(* land, fires), the skier is Skiing when update returns and its sprite is *)
(* DIRECTION_IMAGES[direction], not a jump frame; and no call made on a    *)
(* jumping skier, nor the update in which it starts to jump, changes its   *)
(* direction, so the direction is the one the jump began with.             *)
(***************************************************************************)
Landed == last.op = "update" /\ last.sinks = << CallbackCall >>

C7_Landing ==
    /\ Landed =>
          /\ last.pre.state = STATES.STATE_JUMPING
          /\ skier.state = STATES.STATE_SKIING
          /\ skier.imageName = DirectionImage(skier.direction)
          /\ skier.imageName \notin { IMAGES_JUMPING[i] : i \in 1..Len(IMAGES_JUMPING) }
    /\ ( \/ last.pre.state = STATES.STATE_JUMPING
         \/ skier.state = STATES.STATE_JUMPING ) =>
          skier.direction = last.pre.direction

C7_Witness ==
    /\ Landed
    /\ last.pre.imageName = IMAGE_NAMES.SKIER_JUMP5
    /\ skier.state = STATES.STATE_SKIING
    /\ skier.imageName = IMAGE_NAMES.SKIER_DOWN

(***************************************************************************)
(* C8.  While the skier is Crashed, handleInput(Space), handleInput(Up)    *)
(* and handleInput(Down) leave it Crashed with direction, speed, imageName *)
(* and position as they were; a handleInput leaves Crashed exactly when    *)
(* the key is Left or Right.                                               *)
(***************************************************************************)
C8_CrashedIgnoresSpaceUpDown ==
    InputIn(STATES.STATE_CRASHED) =>
        /\ last.key \in { KEYS.SPACEBAR, KEYS.UP, KEYS.DOWN } =>
              /\ skier.state = STATES.STATE_CRASHED
              /\ skier.direction = last.pre.direction
              /\ skier.speed = last.pre.speed
              /\ skier.imageName = last.pre.imageName
              /\ skier.position = last.pre.position
        /\ skier.state # STATES.STATE_CRASHED <=> last.key \in { KEYS.LEFT, KEYS.RIGHT }

C8_Witness ==
    /\ InputIn(STATES.STATE_CRASHED)
    /\ last.key = KEYS.DOWN
    /\ last.pre.direction # DIRECTION_DOWN
    /\ skier.state = STATES.STATE_CRASHED

(***************************************************************************)
(* C9.  jump() changes nothing when the skier is already Jumping, faces    *)
(* fully Left or fully Right, or is Crashed; otherwise it sets the state   *)
(* to Jumping and changes nothing else.  This holds of the jump() that     *)
(* handleInput(Space) makes and of the one that update's collision check   *)
(* makes, after its move, on finding a jump ramp.                          *)
(***************************************************************************)
CannotJump(s) ==
    \/ s.state = STATES.STATE_JUMPING
    \/ s.direction = DIRECTION_LEFT
    \/ s.direction = DIRECTION_RIGHT
    \/ s.state = STATES.STATE_CRASHED

\* after is before, but for the state, which is Jumping if before could jump
JumpEffect(before, after) ==
    /\ after.state = IF CannotJump(before) THEN before.state ELSE STATES.STATE_JUMPING
    /\ after.direction = before.direction
    /\ after.speed = before.speed
    /\ after.imageName = before.imageName
    /\ after.jumpAnimation = before.jumpAnimation

C9_JumpGuard ==
    /\ ( /\ last.op = "handleInput"
         /\ last.key = KEYS.SPACEBAR
         /\ last.pre.state # STATES.STATE_DEAD
         /\ last.pre.state # STATES.STATE_JUMPING ) =>
          /\ JumpEffect(last.pre, skier)
          /\ skier.position = last.pre.position
    /\ UpdateFound({ IMAGE_NAMES.JUMP_RAMP }) =>
          JumpEffect(last.pre, last.collided)

\* a jump ramp met while skiing down starts a jump
C9_Witness ==
    /\ UpdateFound({ IMAGE_NAMES.JUMP_RAMP })
    /\ last.pre.state = STATES.STATE_SKIING
    /\ last.collided.state = STATES.STATE_JUMPING
    /\ skier.state = STATES.STATE_JUMPING

(***************************************************************************)
(* C10.  handleInput returns true exactly when the skier is Skiing or      *)
(* Crashed and the key is Left, Right, Up, Down or Space, whether or not   *)
(* the action changed anything; whenever it returns false the skier is as  *)
(* it was.                                                                 *)
(***************************************************************************)
C10_HandledValue ==
    last.op = "handleInput" =>
        /\ last.handled <=>
              /\ last.pre.state \in { STATES.STATE_SKIING, STATES.STATE_CRASHED }
              /\ last.key \in RecognizedKeys
        /\ ~last.handled => skier = last.pre

\* a recognized key whose action changed nothing is still reported handled
C10_Witness ==
    /\ InputIn(STATES.STATE_CRASHED)
    /\ last.key = KEYS.SPACEBAR
    /\ last.handled
    /\ skier = last.pre

(***************************************************************************)
(* C11.  After any sequence of handleInput, update and die on a fresh      *)
(* skier, direction is one of the five values Left..Right (0..4); Left     *)
(* pressed when fully Left and Right pressed when fully Right leave the    *)
(* direction where it is.                                                  *)
(***************************************************************************)
C11_DirectionInRange ==
    /\ skier.direction \in DIRECTION_LEFT..DIRECTION_RIGHT
    /\ ( /\ last.op = "handleInput"
         /\ last.key = KEYS.LEFT
         /\ last.pre.direction = DIRECTION_LEFT ) => skier.direction = DIRECTION_LEFT
    /\ ( /\ last.op = "handleInput"
         /\ last.key = KEYS.RIGHT
         /\ last.pre.direction = DIRECTION_RIGHT ) => skier.direction = DIRECTION_RIGHT

\* Right pressed on a skier already fully right: it creeps and stays in range
C11_Witness ==
    /\ InputIn(STATES.STATE_SKIING)
    /\ last.key = KEYS.RIGHT
    /\ last.pre.direction = DIRECTION_RIGHT
    /\ skier.direction = DIRECTION_RIGHT
    /\ skier.position.x = last.pre.position.x + Px(STARTING_SPEED)

(***************************************************************************)
(* C12.  Whenever the skier is Skiing, its imageName is                    *)
(* DIRECTION_IMAGES[direction].                                            *)
(***************************************************************************)
C12_SkiingSprite ==
    skier.state = STATES.STATE_SKIING => skier.imageName = DirectionImage(skier.direction)

\* a crashed skier has just been brought back to Skiing by Right
C12_Witness ==
    /\ InputIn(STATES.STATE_CRASHED)
    /\ last.key = KEYS.RIGHT
    /\ last.pre.imageName = IMAGE_NAMES.SKIER_CRASH
    /\ skier.state = STATES.STATE_SKIING
    /\ skier.imageName = IMAGE_NAMES.SKIER_RIGHT

(***************************************************************************)
(* C13.  update on a Crashed or Dead skier changes nothing: position,      *)
(* state, direction, speed, imageName and the jump animation (frame index  *)
(* and frame time) are as before, the animation is not stepped and no      *)
(* collision check is made, whatever obstacles the provider holds.         *)
(***************************************************************************)
C13_UpdateOnlyWhenMoving ==
    ( /\ last.op = "update"
      /\ last.pre.state \in { STATES.STATE_CRASHED, STATES.STATE_DEAD } ) =>
        /\ skier = last.pre
        /\ last.collided = last.pre
        /\ last.found = Null
        /\ last.sinks = << >>

\* a crashed skier updated while an obstacle lies on it
C13_Witness ==
    /\ last.op = "update"
    /\ last.pre.state = STATES.STATE_CRASHED
    /\ last.obstacles # << >>
    /\ last.found = Null
    /\ skier = last.pre

(***************************************************************************)
(* C16.  handleInput(Left) on a Crashed skier makes it Skiing at the       *)
(* starting speed, facing Left with the Left sprite, and in the same call  *)
(* moves position.x left by the starting speed; handleInput(Right) does    *)
(* the same to the right.  position.y does not change.                     *)
(***************************************************************************)
C16_RecoveryCreeps ==
    /\ (InputIn(STATES.STATE_CRASHED) /\ last.key = KEYS.LEFT) =>
          skier = [last.pre EXCEPT !.state = STATES.STATE_SKIING,
                                   !.speed = STARTING_SPEED,
                                   !.direction = DIRECTION_LEFT,
                                   !.imageName = IMAGE_NAMES.SKIER_LEFT,
                                   !.position.x = @ - Px(STARTING_SPEED)]
    /\ (InputIn(STATES.STATE_CRASHED) /\ last.key = KEYS.RIGHT) =>
          skier = [last.pre EXCEPT !.state = STATES.STATE_SKIING,
                                   !.speed = STARTING_SPEED,
                                   !.direction = DIRECTION_RIGHT,
                                   !.imageName = IMAGE_NAMES.SKIER_RIGHT,
                                   !.position.x = @ + Px(STARTING_SPEED)]

\* Left on a skier that crashed while heading down
C16_Witness ==
    /\ InputIn(STATES.STATE_CRASHED)
    /\ last.key = KEYS.LEFT
    /\ last.pre.direction = DIRECTION_DOWN
    /\ last.pre.speed = 0
    /\ skier.state = STATES.STATE_SKIING
    /\ skier.position.x = last.pre.position.x - Px(STARTING_SPEED)
    /\ skier.position.y = last.pre.position.y

(***************************************************************************)
(* C17.  When the collision check of an update crashes a Jumping skier,    *)
(* the jump animation's frame index goes back to 0 and its callback is not *)
(* invoked: the animation is not stepped in that update, land does not     *)
(* run, and the skier ends the update Crashed with speed 0 and the crash   *)
(* sprite.                                                                 *)
(***************************************************************************)
C17_CrashDuringJump ==
    ( /\ last.op = "update"
      /\ last.pre.state = STATES.STATE_JUMPING
      /\ last.collided.state = STATES.STATE_CRASHED ) =>
        /\ skier.jumpAnimation.currentAnimationFrame = 0
        /\ skier.jumpAnimation.animationFrameTime =
               last.pre.jumpAnimation.animationFrameTime
        /\ last.sinks = << >>
        /\ skier.state = STATES.STATE_CRASHED
        /\ skier.speed = 0
        /\ skier.imageName = IMAGE_NAMES.SKIER_CRASH
        /\ skier = last.collided

\* a skier whose jump had advanced past its first frame hits a tree
C17_Witness ==
    /\ UpdateFound({ IMAGE_NAMES.TREE })
    /\ last.pre.state = STATES.STATE_JUMPING
    /\ last.pre.jumpAnimation.currentAnimationFrame > 0
    /\ skier.state = STATES.STATE_CRASHED
    /\ skier.jumpAnimation.currentAnimationFrame = 0

(***************************************************************************)
(* C18.  In one update the skier responds to at most one obstacle: the     *)
(* first one, in the provider's order, whose bounds exist and intersect    *)
(* the skier's.  Obstacles after it have no effect, so a ramp listed       *)
(* before an intersecting tree makes the skier jump, not crash.            *)
(***************************************************************************)
C18_FirstMatch ==
    ( /\ last.op = "update"
      /\ last.pre.state \in { STATES.STATE_SKIING, STATES.STATE_JUMPING } ) =>
        IF last.obstacles = << >>
        THEN /\ last.found = Null
             /\ last.collided.state = last.pre.state
        ELSE /\ last.found # Null
             /\ last.found.imageName = last.obstacles[1]
             /\ last.collided.state =
                  CASE last.obstacles[1] = IMAGE_NAMES.JUMP_RAMP ->
                         IF last.pre.direction \in { DIRECTION_LEFT, DIRECTION_RIGHT }
                         THEN last.pre.state
                         ELSE STATES.STATE_JUMPING
                    [] last.obstacles[1] \in Rocks ->
                         IF last.pre.state = STATES.STATE_JUMPING
                         THEN STATES.STATE_JUMPING
                         ELSE STATES.STATE_CRASHED
                    [] OTHER -> STATES.STATE_CRASHED

\* a ramp and then a tree, both on the skier: it jumps
C18_Witness ==
    /\ last.op = "update"
    /\ last.pre.state = STATES.STATE_SKIING
    /\ last.obstacles = << IMAGE_NAMES.JUMP_RAMP, IMAGE_NAMES.TREE >>
    /\ last.collided.state = STATES.STATE_JUMPING
    /\ skier.state # STATES.STATE_CRASHED

\* every call made on the animation since its construction was nextAnimationFrame
OnlyAdvanced ==
    /\ called # << >>
    /\ \A i \in 2..Len(called) : called[i].op = "nextAnimationFrame"

\* the number of calls made on the animation since its construction
Advances == Len(called) - 1

IsGetCurrentImage(call) == call.sink = "getCurrentImage"

(***************************************************************************)
(* C14.  A non-looping Animation over N images, advanced from frame 0:     *)
(* the advances deliver images[1], ..., images[N-1] (counting from 0) to   *)
(* the sink in that order and never images[0]; the N-th advance invokes    *)
(* the callback once, makes no call to the sink and leaves the frame       *)
(* index at 0, from where the next cycle runs the same way.                *)
(***************************************************************************)
C14_NonLoopingCycle ==
    (called # << >> /\ ~animation.looping) =>
        LET N == Len(animation.images)
            cycle == [ i \in 1..Advances |->
                         IF i % N = 0
                         THEN CallbackCall
                         ELSE GetCurrentImageCall(animation.images[(i % N) + 1]) ]
        IN  /\ \A i \in 1..Len(sunk) : sunk[i] # GetCurrentImageCall(animation.images[1])
            /\ OnlyAdvanced =>
                  /\ animation.currentAnimationFrame = Advances % N
                  /\ sunk = IF animation.hasCallback
                            THEN cycle
                            ELSE SelectSeq(cycle, IsGetCurrentImage)

\* three images, three advances: two frames delivered, then the callback
C14_Witness ==
    /\ OnlyAdvanced
    /\ Advances = 3
    /\ ~animation.looping
    /\ animation.hasCallback
    /\ Len(animation.images) = 3
    /\ sunk = << GetCurrentImageCall(animation.images[2]),
                 GetCurrentImageCall(animation.images[3]),
                 CallbackCall >>
    /\ animation.currentAnimationFrame = 0

(***************************************************************************)
(* C15.  animate(gameTime) changes nothing and calls nothing unless        *)
(* gameTime - animationFrameTime is strictly greater than the frame        *)
(* interval; when it is, the call makes exactly one frame advance, however *)
(* long the elapsed time, and animationFrameTime becomes gameTime.         *)
(***************************************************************************)
C15_IntervalGate ==
    [][ ( /\ called # << >>
          /\ Len(called') = Len(called) + 1
          /\ called'[Len(called')].op = "animate" ) =>
            LET gameTime == called'[Len(called')].time
                N == Len(animation.images)
                finishes == animation.currentAnimationFrame + 1 >= N
            IN  IF gameTime - animation.animationFrameTime > ANIMATION_FRAME_SPEED_MS
                THEN /\ animation'.animationFrameTime = gameTime
                     /\ animation'.currentAnimationFrame =
                          IF finishes THEN 0 ELSE animation.currentAnimationFrame + 1
                     /\ Len(sunk') = Len(sunk) +
                          IF finishes /\ ~animation.looping /\ ~animation.hasCallback
                          THEN 0 ELSE 1
                ELSE /\ animation' = animation
                     /\ sunk' = sunk
      ]_vars

\* one animate call three intervals after construction: one frame, no more
C15_Witness ==
    /\ Len(called) = 2
    /\ called[2] = AnimationCall("animate", called[1].time + 3 * ANIMATION_FRAME_SPEED_MS)
    /\ Len(animation.images) = 3
    /\ animation.currentAnimationFrame = 1
    /\ animation.animationFrameTime = called[2].time
    /\ sunk = << GetCurrentImageCall(animation.images[2]) >>

(***************************************************************************)
(* C19.  A looping Animation over N images: the advance that takes the     *)
(* frame index to N wraps it to 0 and calls the sink with images[0]; its   *)
(* callback is not invoked by any sequence of animate, nextAnimationFrame  *)
(* and reset calls; the frame index stays within 0..N-1.                   *)
(***************************************************************************)
C19_LoopingWraps ==
    (called # << >> /\ animation.looping) =>
        LET N == Len(animation.images)
        IN  /\ \A i \in 1..Len(sunk) : sunk[i] # CallbackCall
            /\ animation.currentAnimationFrame \in 0..(N - 1)
            /\ OnlyAdvanced =>
                  /\ animation.currentAnimationFrame = Advances % N
                  /\ sunk = [ i \in 1..Advances |->
                                GetCurrentImageCall(animation.images[(i % N) + 1]) ]

\* three images, three advances: the third wraps and delivers the first image
C19_Witness ==
    /\ OnlyAdvanced
    /\ Advances = 3
    /\ animation.looping
    /\ animation.hasCallback
    /\ Len(animation.images) = 3
    /\ sunk = << GetCurrentImageCall(animation.images[2]),
                 GetCurrentImageCall(animation.images[3]),
                 GetCurrentImageCall(animation.images[1]) >>
    /\ animation.currentAnimationFrame = 0

(***************************************************************************)
(* C20.  Once the skier is Dead, a direct call of jump(), land(), crash()  *)
(* or recoverFromCrash(d) leaves its state Dead.                           *)
(***************************************************************************)
C20_DeadIsTerminalForMethods ==
    ( /\ last.op \in { "jump", "land", "crash", "recoverFromCrash" }
      /\ last.pre.state = STATES.STATE_DEAD ) => skier.state = STATES.STATE_DEAD

(***************************************************************************)
(* C21.  After any sequence of handleInput, update and die on a fresh      *)
(* skier, the speed follows from the state: it is the starting speed       *)
(* whenever the skier is Skiing or Jumping, and 0 whenever it is Crashed   *)
(* or Dead.                                                                *)
(***************************************************************************)
C21_SpeedByState ==
    /\ skier.state \in { STATES.STATE_SKIING, STATES.STATE_JUMPING } =>
          skier.speed = STARTING_SPEED
    /\ skier.state \in { STATES.STATE_CRASHED, STATES.STATE_DEAD } =>
          skier.speed = 0

\* die called on a skier in the middle of a jump
C21_Witness ==
    /\ last.op = "die"
    /\ last.pre.state = STATES.STATE_JUMPING
    /\ last.pre.speed = STARTING_SPEED
    /\ skier.state = STATES.STATE_DEAD
    /\ skier.speed = 0

(***************************************************************************)
(* C22.  After any sequence of handleInput, update and die, whenever the   *)
(* skier is Skiing or Crashed the jump animation's frame index is 0; so    *)
(* every jump, begun by Space or by a ramp, starts from frame index 0,     *)
(* however the earlier jumps ended.                                        *)
(***************************************************************************)
C22_FrameZeroAtRest ==
    /\ skier.state \in { STATES.STATE_SKIING, STATES.STATE_CRASHED } =>
          skier.jumpAnimation.currentAnimationFrame = 0
    /\ ( /\ last.pre.state # STATES.STATE_JUMPING
         /\ last.collided.state = STATES.STATE_JUMPING ) =>
          last.collided.jumpAnimation.currentAnimationFrame = 0
    /\ ( /\ last.op = "handleInput"
         /\ last.pre.state # STATES.STATE_JUMPING
         /\ skier.state = STATES.STATE_JUMPING ) =>
          skier.jumpAnimation.currentAnimationFrame = 0

\* a jump that showed its last frame has just ended by landing
C22_Witness ==
    /\ Landed
    /\ last.pre.jumpAnimation.currentAnimationFrame = Len(IMAGES_JUMPING) - 1
    /\ skier.state = STATES.STATE_SKIING
    /\ skier.jumpAnimation.currentAnimationFrame = 0

(***************************************************************************)
(* C23.  If the driver keeps calling update with gameTime growing by more  *)
(* than the frame interval, a Jumping skier does not stay Jumping: it      *)
(* eventually is Skiing (landed), Crashed or Dead.  Every such update      *)
(* that leaves it Jumping advances the jump by exactly one frame, and the  *)
(* landing comes with the advance after the last of the 5 images, the 5th  *)
(* advance of a jump that began at frame index 0.                          *)
(***************************************************************************)
C23_JumpEnds ==
    /\ (skier.state = STATES.STATE_JUMPING /\ RoomToLand)
          ~> (skier.state \in { STATES.STATE_SKIING, STATES.STATE_CRASHED,
                                STATES.STATE_DEAD })
    /\ []( ( /\ last.op = "update"
             /\ last.collided.state = STATES.STATE_JUMPING ) =>
               IF skier.state = STATES.STATE_JUMPING
               THEN skier.jumpAnimation.currentAnimationFrame =
                        last.collided.jumpAnimation.currentAnimationFrame + 1
               ELSE /\ Landed
                    /\ skier.state = STATES.STATE_SKIING
                    /\ last.collided.jumpAnimation.currentAnimationFrame =
                           Len(IMAGES_JUMPING) - 1 )

\* a jump begun with Space at time 0 lands in the fifth update
C23_Witness ==
    /\ Landed
    /\ now = Len(IMAGES_JUMPING) * (ANIMATION_FRAME_SPEED_MS + 100)
    /\ skier.position.y = Px(Len(IMAGES_JUMPING) * STARTING_SPEED)
    /\ skier.state = STATES.STATE_SKIING

====
